---- MODULE Spec2Model ----
(***************************************************************************)
(* Model of alertreview's Code.js: the spreadsheet report (lines 1-214)    *)
(* and the document report (lines 216-452).                                *)
(*                                                                         *)
(* A JavaScript string is a sequence of one-character strings.  A count is *)
(* an integer.  A JavaScript number that may be NaN or infinite (the       *)
(* result of parseInt or of a division) is a record, see NaN, Inf and Fin. *)
(***************************************************************************)
EXTENDS Integers, Sequences, FiniteSets

(***************************************************************************)
(* Bounds of the model.                                                    *)
(***************************************************************************)
MaxSubjects == 3       \* messages the mail search returns, document report
MaxSheetSubjects == 2  \* messages the mail search returns, spreadsheet report
MaxRows == 1           \* data rows of the SplunkOnCall sheet
MaxRuns == 2           \* report runs in one behaviour

(***************************************************************************)
(* Characters.                                                             *)
(***************************************************************************)
UpperChars == <<"A","B","C","D","E","F","G","H","I","J","K","L","M",
                "N","O","P","Q","R","S","T","U","V","W","X","Y","Z">>
LowerChars == <<"a","b","c","d","e","f","g","h","i","j","k","l","m",
                "n","o","p","q","r","s","t","u","v","w","x","y","z">>
DigitChars == <<"0","1","2","3","4","5","6","7","8","9">>

IsDigit(c) == \E i \in 1..Len(DigitChars) : DigitChars[i] = c
DigitValue(c) == (CHOOSE i \in 1..Len(DigitChars) : DigitChars[i] = c) - 1
IsUpper(c) == \E i \in 1..Len(UpperChars) : UpperChars[i] = c

\* The value of `undefined`: no string, as no element of a string has two characters.
Undefined == <<"undefined">>

(***************************************************************************)
(* String.prototype.toLowerCase, character by character.                   *)
(***************************************************************************)
toLowerCaseChar(c) ==
    IF IsUpper(c)
    THEN LowerChars[CHOOSE i \in 1..Len(UpperChars) : UpperChars[i] = c]
    ELSE c

\* A plausible slip: the case of every letter is swapped instead of lowered.
swapCaseChar(c) ==
    IF IsUpper(c)
    THEN LowerChars[CHOOSE i \in 1..Len(UpperChars) : UpperChars[i] = c]
    ELSE IF \E i \in 1..Len(LowerChars) : LowerChars[i] = c
         THEN UpperChars[CHOOSE i \in 1..Len(LowerChars) : LowerChars[i] = c]
         ELSE c

\* A plausible slip: the subject is used as the key without lower-casing it.
toLowerCaseOmitted(s) == s

toLowerCaseSwapped(s) == [i \in 1..Len(s) |-> swapCaseChar(s[i])]

toLowerCase(s) == [i \in 1..Len(s) |-> toLowerCaseChar(s[i])]

(***************************************************************************)
(* The `counts` object of deduplicateAlerts: its properties in creation    *)
(* order, each a record [key, value].                                      *)
(***************************************************************************)
HasKey(acc, k) == \E i \in 1..Len(acc) : acc[i].key = k

\* A plausible slip: every subject creates an entry of its own.
accumulateNoMerge(acc, subject) ==
    Append(acc, [key |-> toLowerCase(subject), value |-> 1])

\* A plausible slip: a repeated subject resets its count instead of adding to it.
accumulateNoAdd(acc, subject) ==
    LET normalizedSubject == toLowerCase(subject) IN
    IF HasKey(acc, normalizedSubject)
    THEN [i \in 1..Len(acc) |->
            IF acc[i].key = normalizedSubject
            THEN [acc[i] EXCEPT !.value = 1] ELSE acc[i]]
    ELSE Append(acc, [key |-> normalizedSubject, value |-> 1])

\* The reducer: acc[normalizedSubject] = (acc[normalizedSubject] || 0) + 1.
accumulate(acc, subject) ==
    LET normalizedSubject == toLowerCase(subject) IN
    IF HasKey(acc, normalizedSubject)
    THEN [i \in 1..Len(acc) |->
            IF acc[i].key = normalizedSubject
            THEN [acc[i] EXCEPT !.value = @ + 1] ELSE acc[i]]
    ELSE Append(acc, [key |-> normalizedSubject, value |-> 1])

RECURSIVE reduceSubjects(_, _)
reduceSubjects(subjects, acc) ==
    IF subjects = <<>> THEN acc
    ELSE reduceSubjects(Tail(subjects), accumulate(acc, Head(subjects)))

(***************************************************************************)
(* Property order of an object (OrdinaryOwnPropertyKeys): the keys that    *)
(* are array indices ("0", "7", "10": canonical decimals below 2^32 - 1)   *)
(* in ascending numeric order, then the other keys in creation order.      *)
(***************************************************************************)
RECURSIVE DecimalValue(_)
DecimalValue(s) ==
    IF s = <<>> THEN 0
    ELSE 10 * DecimalValue(SubSeq(s, 1, Len(s) - 1)) + DigitValue(s[Len(s)])

\* Every canonical decimal of at most nine digits is an array index; the ten-digit
\* indices (up to 4294967294) are beyond the integers of the model checker and
\* beyond the subjects of the model.
IsArrayIndex(s) ==
    /\ Len(s) >= 1
    /\ Len(s) <= 9
    /\ \A i \in 1..Len(s) : IsDigit(s[i])
    /\ (Len(s) > 1 => s[1] # "0")

RECURSIVE SelectEntries(_, _)
SelectEntries(acc, index) ==
    IF acc = <<>> THEN <<>>
    ELSE IF IsArrayIndex(Head(acc).key) = index
         THEN <<Head(acc)>> \o SelectEntries(Tail(acc), index)
         ELSE SelectEntries(Tail(acc), index)

RECURSIVE InsertByIndex(_, _)
InsertByIndex(sorted, e) ==
    IF sorted = <<>> THEN <<e>>
    ELSE IF DecimalValue(e.key) < DecimalValue(Head(sorted).key)
         THEN <<e>> \o sorted
         ELSE <<Head(sorted)>> \o InsertByIndex(Tail(sorted), e)

RECURSIVE SortByIndex(_)
SortByIndex(acc) ==
    IF acc = <<>> THEN <<>>
    ELSE InsertByIndex(SortByIndex(SubSeq(acc, 1, Len(acc) - 1)), acc[Len(acc)])

ObjectEntries(acc) ==
    SortByIndex(SelectEntries(acc, TRUE)) \o SelectEntries(acc, FALSE)

(***************************************************************************)
(* Array.prototype.sort((a, b) => b.count - a.count): a stable sort, an    *)
(* element moves in front of those of a strictly smaller count only.       *)
(***************************************************************************)
RECURSIVE InsertByCount(_, _)
InsertByCount(sorted, e) ==
    IF sorted = <<>> THEN <<e>>
    ELSE IF Head(sorted).count < e.count
         THEN <<e>> \o sorted
         ELSE <<Head(sorted)>> \o InsertByCount(Tail(sorted), e)

RECURSIVE sortByCountDesc(_)
sortByCountDesc(alerts) ==
    IF alerts = <<>> THEN <<>>
    ELSE InsertByCount(sortByCountDesc(SubSeq(alerts, 1, Len(alerts) - 1)),
                       alerts[Len(alerts)])

deduplicateAlerts(subjects) ==
    LET counts == reduceSubjects(subjects, <<>>)
        entries == ObjectEntries(counts)
    IN sortByCountDesc([i \in 1..Len(entries) |->
            [subject |-> entries[i].key, name |-> Undefined,
             count |-> entries[i].value]])

(***************************************************************************)
(* JavaScript numbers that need not be integers.  Fin(n, d) is the         *)
(* rational n / d in lowest terms with d > 0; the model computes with the  *)
(* exact value where the code computes with the nearest double.            *)
(***************************************************************************)
Abs(n) == IF n < 0 THEN -n ELSE n

RECURSIVE GCD(_, _)
GCD(a, b) == IF b = 0 THEN a ELSE GCD(b, a % b)

NaN == [k |-> "NaN", n |-> 0, d |-> 1]
Inf(sign) == [k |-> "Infinity", n |-> sign, d |-> 1]
Fin(n, d) ==
    LET g == GCD(Abs(n), Abs(d))
        s == IF d < 0 THEN -1 ELSE 1
    IN [k |-> "finite", n |-> (s * n) \div g, d |-> (s * d) \div g]

\* (x / total) * 100 for a number x and an integer total.
percentOf(x, total) ==
    IF x.k = "NaN" THEN NaN
    ELSE IF total = 0
         THEN (IF x.n = 0 THEN NaN ELSE Inf(IF x.n < 0 THEN -1 ELSE 1))
         ELSE Fin(x.n * 100, x.d * total)

(***************************************************************************)
(* Number to string: `${count}` for an integer count.                      *)
(***************************************************************************)
RECURSIVE NatToString(_)
NatToString(n) ==
    IF n < 10 THEN <<DigitChars[n + 1]>>
    ELSE NatToString(n \div 10) \o <<DigitChars[(n % 10) + 1]>>

IntToString(n) == IF n < 0 THEN <<"-">> \o NatToString(-n) ELSE NatToString(n)

(***************************************************************************)
(* Number.prototype.toFixed(2): "NaN" and "Infinity" for the values that   *)
(* are no finite number; otherwise the sign of a negative value, then the  *)
(* magnitude rounded to hundredths, a tie going to the larger one.         *)
(***************************************************************************)
toFixed2(x) ==
    IF x.k = "NaN" THEN <<"N","a","N">>
    ELSE IF x.k = "Infinity"
         THEN (IF x.n < 0 THEN <<"-">> ELSE <<>>)
              \o <<"I","n","f","i","n","i","t","y">>
         ELSE LET hundredths == (Abs(x.n) * 200 + x.d) \div (2 * x.d)
              IN (IF x.n < 0 THEN <<"-">> ELSE <<>>)
                 \o NatToString(hundredths \div 100) \o <<".">>
                 \o <<DigitChars[((hundredths \div 10) % 10) + 1],
                      DigitChars[(hundredths % 10) + 1]>>

(***************************************************************************)
(* parseInt(string, 10): leading white space is skipped, a sign is read,   *)
(* then the longest run of digits; NaN when there is no digit.             *)
(***************************************************************************)
RECURSIVE SkipSpaces(_)
SkipSpaces(s) ==
    IF s # <<>> /\ Head(s) = " " THEN SkipSpaces(Tail(s)) ELSE s

RECURSIVE DigitPrefix(_)
DigitPrefix(s) ==
    IF s # <<>> /\ IsDigit(Head(s)) THEN <<Head(s)>> \o DigitPrefix(Tail(s))
    ELSE <<>>

parseInt(s) ==
    LET t == SkipSpaces(s)
        negative == t # <<>> /\ Head(t) = "-"
        signed == t # <<>> /\ Head(t) \in {"-", "+"}
        digits == DigitPrefix(IF signed THEN Tail(t) ELSE t)
    IN IF digits = <<>> THEN NaN
       ELSE Fin((IF negative THEN -1 ELSE 1) * DecimalValue(digits), 1)

\* value.split(' ')[0]: the text before the first space.
RECURSIVE splitFirst(_)
splitFirst(s) ==
    IF s = <<>> \/ Head(s) = " " THEN <<>>
    ELSE <<Head(s)>> \o splitFirst(Tail(s))

(***************************************************************************)
(* Arithmetic of the report: sums of counts and of parsed cells.           *)
(***************************************************************************)
RECURSIVE calculateTotalAlertsCount(_)
calculateTotalAlertsCount(data) ==
    IF data = <<>> THEN 0
    ELSE Head(data).count + calculateTotalAlertsCount(Tail(data))

\* JavaScript's + on two numbers of which either may be NaN.
numAdd(a, b) ==
    IF a.k = "NaN" \/ b.k = "NaN" THEN NaN ELSE Fin(a.n * b.d + b.n * a.d, a.d * b.d)

slice(data, n) == SubSeq(data, 1, IF Len(data) < n THEN Len(data) ELSE n)

topCount == 5
Top5Rows == 5

calculateTopAlertsCount(data, top) ==
    calculateTotalAlertsCount(slice(sortByCountDesc(data), top))

calculateTopAlertsPercent(data, top) ==
    toFixed2(percentOf(Fin(calculateTopAlertsCount(data, top), 1),
                       calculateTotalAlertsCount(data)))

(***************************************************************************)
(* The sources and the sheets of the spreadsheet report.                   *)
(***************************************************************************)
Sources == <<"SplunkOnCall", "EmailAlerts">>

SHEET_NAMES == [source \in {"SplunkOnCall", "EmailAlerts"} |->
    IF source = "SplunkOnCall" THEN "Top 5 Paging Alerts" ELSE "Top root@ Mail Alerts"]

SheetNames == {SHEET_NAMES[source] : source \in DOMAIN SHEET_NAMES}

\* A sheet that does not exist yet.
NoSheet == [exists |-> FALSE, header |-> <<>>, rows |-> <<>>, top |-> <<>>,
            footer |-> <<>>]

\* `${count} (${percentage}%)`
countCell(count, totalAlertsCount) ==
    IntToString(count) \o <<" ", "(">>
        \o toFixed2(percentOf(Fin(count, 1), totalAlertsCount)) \o <<"%", ")">>

\* subject || name
subjectOrName(alert) ==
    IF alert.subject # Undefined /\ alert.subject # <<>> THEN alert.subject
    ELSE alert.name

setHeaders(sheetName) ==
    <<"Count", "Alert Name", "", "Top 5 Count",
      IF sheetName = "Top root@ Mail Alerts" THEN "Subject" ELSE "Alert Name">>

\* sheet.clear() and the header row: whatever the sheet held is gone.
prepareSheet(sheetName) ==
    [exists |-> TRUE, header |-> setHeaders(sheetName), rows |-> <<>>,
     top |-> <<>>, footer |-> <<>>]

\* getRange('A2:A6').getValues(): the cells of column A below the header, an
\* empty cell reading as the empty string.
columnA2toA6(sheet) ==
    [i \in 1..Top5Rows |-> IF i <= Len(sheet.rows) THEN sheet.rows[i].A ELSE <<>>]

RECURSIVE sumParsed(_)
sumParsed(values) ==
    IF values = <<>> THEN Fin(0, 1)
    ELSE numAdd(sumParsed(SubSeq(values, 1, Len(values) - 1)),
                parseInt(splitFirst(values[Len(values)])))

calculateTop5Percentage(sheet, totalAlertsCount) ==
    percentOf(sumParsed(columnA2toA6(sheet)), totalAlertsCount)

createFooter(sheet, totalAlertsCount) ==
    [sheet EXCEPT !.footer =
        [D8 |-> "Total Alerts:", E8 |-> totalAlertsCount,
         D9 |-> "Top 5 Alerts % of Total:",
         E9 |-> [number |-> calculateTop5Percentage(sheet, totalAlertsCount),
                 unit |-> "%"]]]

outputData(sheetName, data) ==
    LET totalAlertsCount == calculateTotalAlertsCount(data)
        row(i) == [A |-> countCell(data[i].count, totalAlertsCount),
                   B |-> subjectOrName(data[i])]
        sheet == [prepareSheet(sheetName) EXCEPT
                    !.rows = [i \in 1..Len(data) |-> row(i)],
                    !.top = [i \in 1..(IF Len(data) < Top5Rows THEN Len(data)
                                       ELSE Top5Rows) |-> row(i)]]
    IN createFooter(sheet, totalAlertsCount)

(***************************************************************************)
(* The SplunkOnCall sheet of the spreadsheet, and its fetch.               *)
(***************************************************************************)
indexOf(columnHeaders, title) ==
    IF \E i \in 1..Len(columnHeaders) : columnHeaders[i] = title
    THEN CHOOSE i \in 1..Len(columnHeaders) :
            /\ columnHeaders[i] = title
            /\ \A j \in 1..(i - 1) : columnHeaders[j] # title
    ELSE 0

\* parseInt(cell, 10) || 0
parseCount(cell) ==
    LET parsed == parseInt(cell) IN IF parsed.k = "NaN" THEN 0 ELSE parsed.n

\* The result of a fetch: the records, or the error thrown.
Returned(alerts) == [threw |-> FALSE, error |-> "none", data |-> alerts]
Thrown(message) == [threw |-> TRUE, error |-> message, data |-> <<>>]

\* A plausible slip: missing columns degrade to an empty result instead of an error.
fetchSplunkOnCallDataDegrades(sheet) ==
    IF ~sheet.exists
    THEN Thrown("ReferenceError: sheetName is not defined")
    ELSE LET serviceIndex == indexOf(sheet.columnHeaders, "Service")
             countIndex == indexOf(sheet.columnHeaders, "Number Of Alerts")
         IN IF serviceIndex = 0 \/ countIndex = 0
            THEN Returned(<<>>)
            ELSE Returned(sortByCountDesc(
                    [i \in 1..Len(sheet.dataRows) |->
                        [subject |-> Undefined,
                         name |-> sheet.dataRows[i][serviceIndex],
                         count |-> parseCount(sheet.dataRows[i][countIndex])]]))

fetchSplunkOnCallData(sheet) ==
    IF ~sheet.exists
    THEN \* the log line reads `sheetName`, which no scope declares
         Thrown("ReferenceError: sheetName is not defined")
    ELSE LET serviceIndex == indexOf(sheet.columnHeaders, "Service")
             countIndex == indexOf(sheet.columnHeaders, "Number Of Alerts")
         IN IF serviceIndex = 0 \/ countIndex = 0
            THEN Thrown("Required columns not found in the SplunkOnCall sheet")
            ELSE Returned(sortByCountDesc(
                    [i \in 1..Len(sheet.dataRows) |->
                        [subject |-> Undefined,
                         name |-> sheet.dataRows[i][serviceIndex],
                         count |-> parseCount(sheet.dataRows[i][countIndex])]]))

\* GmailApp.search and the subjects of the messages found, deduplicated.
fetchEmailAlerts(subjects) == Returned(deduplicateAlerts(subjects))

fetchAlertsData(source, sheet, subjects) ==
    IF source = "SplunkOnCall" THEN fetchSplunkOnCallData(sheet)
    ELSE IF source = "EmailAlerts" THEN fetchEmailAlerts(subjects)
    ELSE Returned(<<>>)

(***************************************************************************)
(* The inputs: the subjects the mail search finds and the contents of the  *)
(* SplunkOnCall sheet.                                                     *)
(***************************************************************************)
SubjectPool ==
    { <<"[","2","x","]"," ","D","i","s","k"," ","F","u","l","l">>,
      <<"d","i","s","k"," ","f","u","l","l">>,
      <<"D","i","s","k"," ","F","u","l","l">>,
      <<"d","i","s","k"," ","f","u","l","l"," ">>,
      <<"C","P","U"," ","H","i","g","h">>,
      <<"[","2","x","]"," ","[","F","I","R","I","N","G",":","3","]"," ","U","p">>,
      <<"2">> }

HeaderPool ==
    { <<"Service", "Number Of Alerts">>,
      <<"Number Of Alerts", "Service">>,
      <<"Service", "Count">>,
      <<"Team", "Number Of Alerts">> }

RowPool ==
    { << <<"w","e","b">>, <<"7">> >>,
      << <<"d","b">>, <<"n","/","a">> >>,
      << <<"a","p","i">>, <<"-","2">> >> }

SeqsUpTo(S, n) == UNION {[1..m -> S] : m \in 0..n}

SplunkSheets ==
    { [exists |-> FALSE, columnHeaders |-> <<>>, dataRows |-> <<>>] }
    \cup { [exists |-> TRUE, columnHeaders |-> h, dataRows |-> r] :
             h \in HeaderPool, r \in SeqsUpTo(RowPool, MaxRows) }

(***************************************************************************)
(* The state.                                                              *)
(***************************************************************************)
VARIABLES
    mailbox,      \* the subjects of the messages GmailApp.search returns
    splunk,       \* the SplunkOnCall sheet
    sheets,       \* the output sheets of the spreadsheet, by name
    alertsData,   \* by source, the data processAlerts last handed to outputData
    doc,          \* the body of the document report
    pc,           \* "idle", or "forEach" inside runAlertsAnalysis
    index,        \* the position of forEach in Sources
    produced,     \* the sources whose sheet the current or last forEach has written
    error,        \* the error that ended the last run, or "none"
    runs,         \* report runs started
    fetchCalls,   \* calls of fetchEmailAlerts
    searchCalls,  \* calls of GmailApp.search
    ttlExpired    \* the cache lifetime has passed since the first mail search

vars == <<mailbox, splunk, sheets, alertsData, doc, pc, index, produced, error,
          runs, fetchCalls, searchCalls, ttlExpired>>

NoDoc == [written |-> FALSE, data |-> <<>>, table |-> <<>>,
          totalAlertsCount |-> 0, topAlertsPercent |-> <<>>]

\* Nothing has run yet: no output sheet exists and the document is untouched.
NothingRun ==
    /\ sheets = [name \in SheetNames |-> NoSheet]
    /\ alertsData = [source \in DOMAIN SHEET_NAMES |-> <<>>]
    /\ doc = NoDoc
    /\ pc = "idle"
    /\ index = 0
    /\ produced = {}
    /\ error = "none"
    /\ runs = 0
    /\ fetchCalls = 0
    /\ searchCalls = 0
    /\ ttlExpired = FALSE

Init ==
    /\ mailbox \in SeqsUpTo(SubjectPool, MaxSheetSubjects)
    /\ splunk \in SplunkSheets
    /\ NothingRun

\* The document report reads the mailbox only.
InitDoc ==
    /\ mailbox \in SeqsUpTo(SubjectPool, MaxSubjects)
    /\ splunk = [exists |-> FALSE, columnHeaders |-> <<>>, dataRows |-> <<>>]
    /\ NothingRun

(***************************************************************************)
(* The spreadsheet report: runAlertsAnalysis (line 11) walks the sources   *)
(* in the order of Object.keys(SHEET_NAMES); an error thrown by a fetch is *)
(* caught nowhere and ends the run.                                        *)
(***************************************************************************)
runAlertsAnalysis ==
    /\ pc = "idle"
    /\ runs < MaxRuns
    /\ pc' = "forEach"
    /\ index' = 1
    /\ produced' = {}
    /\ error' = "none"
    /\ runs' = runs + 1
    /\ UNCHANGED <<mailbox, splunk, sheets, alertsData, doc, fetchCalls,
                   searchCalls, ttlExpired>>

\* The calls of the mail search one fetch of a source makes.
searchesOf(source) == IF source = "EmailAlerts" THEN 1 ELSE 0

processAlerts ==
    /\ pc = "forEach"
    /\ LET source == Sources[index]
           fetched == fetchAlertsData(source, splunk, mailbox)
       IN /\ fetchCalls' = fetchCalls + searchesOf(source)
          /\ searchCalls' = searchCalls + searchesOf(source)
          /\ IF fetched.threw
             THEN /\ error' = fetched.error
                  /\ pc' = "idle"
                  /\ index' = 0
                  /\ UNCHANGED <<sheets, alertsData, produced>>
             ELSE /\ alertsData' = [alertsData EXCEPT ![source] = fetched.data]
                  /\ sheets' = [sheets EXCEPT ![SHEET_NAMES[source]] =
                                    outputData(SHEET_NAMES[source], fetched.data)]
                  /\ produced' = produced \cup {source}
                  /\ pc' = IF index = Len(Sources) THEN "idle" ELSE "forEach"
                  /\ index' = IF index = Len(Sources) THEN 0 ELSE index + 1
                  /\ UNCHANGED error
    /\ UNCHANGED <<mailbox, splunk, doc, runs, ttlExpired>>

(***************************************************************************)
(* The document report: runAlertsAnalysis (line 232) clears the body and   *)
(* writes the mail section.                                                *)
(***************************************************************************)
appendFormattedTable(data, top) ==
    LET totalAlertsCount == calculateTotalAlertsCount(data)
        shown == slice(data, top)
    IN [i \in 1..Len(shown) |->
            [count |-> countCell(shown[i].count, totalAlertsCount),
             subject |-> shown[i].subject]]

writeRootEmailAlerts(subjects) ==
    LET data == fetchEmailAlerts(subjects).data
    IN [written |-> TRUE,
        data |-> data,
        table |-> appendFormattedTable(data, topCount),
        totalAlertsCount |-> calculateTotalAlertsCount(data),
        topAlertsPercent |-> calculateTopAlertsPercent(data, topCount)]

runAlertsAnalysisDoc ==
    /\ pc = "idle"
    /\ runs < MaxRuns
    /\ doc' = writeRootEmailAlerts(mailbox)
    /\ fetchCalls' = fetchCalls + 1
    /\ searchCalls' = searchCalls + 1
    /\ error' = "none"
    /\ runs' = runs + 1
    /\ UNCHANGED <<mailbox, splunk, sheets, alertsData, pc, index, produced,
                   ttlExpired>>

\* Time passes: the lifetime of a cache entry written by the first fetch is over.
ttlExpires ==
    /\ pc = "idle"
    /\ fetchCalls > 0
    /\ ~ttlExpired
    /\ ttlExpired' = TRUE
    /\ UNCHANGED <<mailbox, splunk, sheets, alertsData, doc, pc, index, produced,
                   error, runs, fetchCalls, searchCalls>>

Next ==
    \/ runAlertsAnalysis
    \/ processAlerts
    \/ ttlExpires

Spec == Init /\ [][Next]_vars

NextDoc == runAlertsAnalysisDoc

SpecDoc == InitDoc /\ [][NextDoc]_vars

(***************************************************************************)
(* The spreadsheet report with the SplunkOnCall sheet changing between     *)
(* runs: the tab is filled by another tool, so a run may find a sheet      *)
(* other than the one the last report was made from.                       *)
(***************************************************************************)
editSplunkSheet ==
    /\ pc = "idle"
    /\ runs < MaxRuns
    /\ splunk' \in SplunkSheets \ {splunk}
    /\ UNCHANGED <<mailbox, sheets, alertsData, doc, pc, index, produced, error,
                   runs, fetchCalls, searchCalls, ttlExpired>>

InitEdit ==
    /\ mailbox = << <<"C","P","U"," ","H","i","g","h">> >>
    /\ splunk \in SplunkSheets
    /\ NothingRun

NextEdit ==
    \/ runAlertsAnalysis
    \/ processAlerts
    \/ editSplunkSheet

SpecEdit == InitEdit /\ [][NextEdit]_vars

(***************************************************************************)
(* The Label Normalizer as the specification describes it (section 4.1):   *)
(* lower-case and trim, find the first `[Nx]` or `[FIRING:N]`, take N as   *)
(* the multiplier and strip the token.  The claims about multipliers are   *)
(* stated with it.                                                         *)
(***************************************************************************)
RECURSIVE trimEnd(_)
trimEnd(s) ==
    IF s # <<>> /\ s[Len(s)] = " " THEN trimEnd(SubSeq(s, 1, Len(s) - 1)) ELSE s

trim(s) == trimEnd(SkipSpaces(s))

FiringTag == <<"f","i","r","i","n","g",":">>

NoAnnotation == [found |-> FALSE, length |-> 0, n |-> 1]

\* The annotation that starts at position i of s, if one does.
annotationAt(s, i) ==
    IF s[i] # "[" THEN NoAnnotation
    ELSE LET rest == SubSeq(s, i + 1, Len(s))
             d == DigitPrefix(rest)
             afterTag == SubSeq(rest, Len(FiringTag) + 1, Len(rest))
             f == DigitPrefix(afterTag)
         IN IF /\ d # <<>>
               /\ Len(rest) >= Len(d) + 2
               /\ rest[Len(d) + 1] = "x"
               /\ rest[Len(d) + 2] = "]"
            THEN [found |-> TRUE, length |-> Len(d) + 3, n |-> DecimalValue(d)]
            ELSE IF /\ Len(rest) >= Len(FiringTag)
                    /\ SubSeq(rest, 1, Len(FiringTag)) = FiringTag
                    /\ f # <<>>
                    /\ Len(afterTag) >= Len(f) + 1
                    /\ afterTag[Len(f) + 1] = "]"
                 THEN [found |-> TRUE, length |-> Len(FiringTag) + Len(f) + 2,
                       n |-> DecimalValue(f)]
                 ELSE NoAnnotation

normalize(raw) ==
    LET lowered == trim(toLowerCase(raw))
        starts == {i \in 1..Len(lowered) : annotationAt(lowered, i).found}
    IN IF starts = {} THEN [label |-> lowered, multiplier |-> 1]
       ELSE LET first == CHOOSE i \in starts : \A j \in starts : i <= j
                a == annotationAt(lowered, first)
            IN [label |-> trim(trimEnd(SubSeq(lowered, 1, first - 1))
                               \o SubSeq(lowered, first + a.length, Len(lowered))),
                multiplier |-> a.n]

RECURSIVE sumOfMultipliers(_)
sumOfMultipliers(raws) ==
    IF raws = <<>> THEN 0
    ELSE normalize(Head(raws)).multiplier + sumOfMultipliers(Tail(raws))

(***************************************************************************)
(* Vocabulary of the claims.                                               *)
(***************************************************************************)
DiskFull2x == <<"[","2","x","]"," ","D","i","s","k"," ","F","u","l","l">>
DiskFull == <<"d","i","s","k"," ","f","u","l","l">>
CpuHigh == <<"C","P","U"," ","H","i","g","h">>
TwoAnnotations ==
    <<"[","2","x","]"," ","[","F","I","R","I","N","G",":","3","]"," ","U","p">>

\* The end-to-end scenario of the specification.
Scenario == <<DiskFull2x, DiskFull, CpuHigh>>

\* Two characters that are the same letter, or the same character.
sameLetter(a, b) ==
    \/ a = b
    \/ \E i \in 1..Len(UpperChars) :
          {a, b} = {UpperChars[i], LowerChars[i]}

equalIgnoringCase(s, t) ==
    /\ Len(s) = Len(t)
    /\ \A i \in 1..Len(s) : sameLetter(s[i], t[i])

\* The position in the mailbox of the first subject that produced a label.
firstSeen(label) ==
    CHOOSE i \in 1..Len(mailbox) :
        /\ equalIgnoringCase(mailbox[i], label)
        /\ \A j \in 1..(i - 1) : ~equalIgnoringCase(mailbox[j], label)

\* The fetch of a source, made on the present inputs, throws nothing.
fetchSucceeds(source) == ~fetchAlertsData(source, splunk, mailbox).threw

\* The data is in descending order of count.
sortedDescending(data) ==
    \A i, j \in 1..Len(data) : i < j => data[i].count >= data[j].count

C2_SortedDescendingTiesInFirstSeenOrder ==
    doc.written =>
        \A i, j \in 1..Len(doc.data) :
            i < j =>
                /\ doc.data[i].count >= doc.data[j].count
                /\ doc.data[i].count = doc.data[j].count =>
                       firstSeen(doc.data[i].subject) < firstSeen(doc.data[j].subject)

C4_NoDuplicateLabels ==
    doc.written =>
        \A i, j \in 1..Len(doc.data) :
            i # j => doc.data[i].subject # doc.data[j].subject

\* C4, witness: subjects that differ in case only have been merged into one entry.
C4_Witness ==
    /\ doc.written
    /\ Len(doc.data) < Len(mailbox)
    /\ \E i, j \in 1..Len(mailbox) :
          mailbox[i] # mailbox[j] /\ equalIgnoringCase(mailbox[i], mailbox[j])

(***************************************************************************)
(* C5.  After a pass of the spreadsheet report over the sources, every     *)
(* source whose own fetch succeeds has had its sheet written, whatever     *)
(* happened to the other source.                                           *)
(***************************************************************************)
C5_FailureOfOneSourceSparesTheOther ==
    (pc = "idle" /\ runs > 0) =>
        \A source \in DOMAIN SHEET_NAMES :
            fetchSucceeds(source) => source \in produced

(***************************************************************************)
(* C6.  While the lifetime of the cache entry of the first fetch has not   *)
(* passed, the mail search has been invoked once, however many fetches of  *)
(* the mail alerts were made.                                              *)
(***************************************************************************)
C6_OneSearchWithinTTL ==
    (fetchCalls >= 1 /\ ~ttlExpired) => searchCalls = 1

(***************************************************************************)
(* C7.  For an alert set that is empty or has a total count of zero, the   *)
(* total is 0 and the top-N percentage of the document report is "0.00".   *)
(***************************************************************************)
C7_ZeroTotalGivesZeroPercent ==
    (doc.written /\ (doc.data = <<>> \/ doc.totalAlertsCount = 0)) =>
        /\ doc.totalAlertsCount = 0
        /\ doc.topAlertsPercent = <<"0", ".", "0", "0">>

(***************************************************************************)
(* C8.  Normalization is idempotent: a label the aggregation has produced, *)
(* aggregated again, comes back as the same label (also for a subject with *)
(* more than one bracket annotation).                                      *)
(***************************************************************************)
C8_NormalizationIdempotent ==
    doc.written =>
        \A k \in 1..Len(doc.data) :
            deduplicateAlerts(<<doc.data[k].subject>>) =
                <<[subject |-> doc.data[k].subject, name |-> Undefined, count |-> 1]>>

\* C8, witness: a subject with capitals and two annotations has been aggregated.
C8_Witness ==
    /\ doc.written
    /\ \E i \in 1..Len(mailbox) : mailbox[i] = TwoAnnotations
    /\ \E k \in 1..Len(doc.data) :
          /\ equalIgnoringCase(doc.data[k].subject, TwoAnnotations)
          /\ doc.data[k].subject # TwoAnnotations

(***************************************************************************)
(* C9.  Every entry handed to outputData has a count of at least 1,        *)
(* whichever source produced it.                                           *)
(***************************************************************************)
C9_CountsAtLeastOne ==
    \A source \in DOMAIN SHEET_NAMES :
        \A k \in 1..Len(alertsData[source]) : alertsData[source][k].count >= 1

(***************************************************************************)
(* C10.  For data sorted by descending count with a non-zero total, the    *)
(* top-5 percentage of the sheet footer is the sum of the counts of the    *)
(* first min(5, n) entries over the total, the value                       *)
(* calculateTopAlertsPercent computes with topCount = 5.                   *)
(***************************************************************************)
C10_FooterTop5IsTopCountsOverTotal ==
    \A source \in DOMAIN SHEET_NAMES :
        LET data == alertsData[source]
            sheet == sheets[SHEET_NAMES[source]]
            total == calculateTotalAlertsCount(data)
        IN (sheet.footer # <<>> /\ sortedDescending(data) /\ total # 0) =>
              /\ sheet.footer.E9.number =
                    percentOf(Fin(calculateTotalAlertsCount(slice(data, Top5Rows)), 1),
                              total)
              /\ toFixed2(sheet.footer.E9.number) =
                    calculateTopAlertsPercent(data, topCount)

(***************************************************************************)
(* C11.  When the header row of the SplunkOnCall sheet lacks `Service` or  *)
(* `Number Of Alerts`, the fetch of that source throws, whatever the data  *)
(* rows hold, and returns no record; the step of the run that makes it     *)
(* ends the run with that error and leaves every output sheet as it was,   *)
(* neither cleared nor written.                                            *)
(***************************************************************************)
lacksRequiredColumn(sheet) ==
    /\ sheet.exists
    /\ \/ \A i \in 1..Len(sheet.columnHeaders) : sheet.columnHeaders[i] # "Service"
       \/ \A i \in 1..Len(sheet.columnHeaders) :
              sheet.columnHeaders[i] # "Number Of Alerts"

RequiredColumnsError == "Required columns not found in the SplunkOnCall sheet"

C11_MissingColumnsLeaveReportUnchanged ==
    [][ (/\ pc = "forEach"
         /\ Sources[index] = "SplunkOnCall"
         /\ lacksRequiredColumn(splunk))
        => /\ fetchSplunkOnCallData(splunk) = Thrown(RequiredColumnsError)
           /\ error' = RequiredColumnsError
           /\ pc' = "idle"
           /\ sheets' = sheets
           /\ alertsData' = alertsData
           /\ produced' = produced ]_vars

\* C11, witness: a report with rows was written, the sheet then lost a required
\* column while holding data rows, and the next run has ended with the error.
C11_Witness ==
    /\ pc = "idle"
    /\ error = RequiredColumnsError
    /\ lacksRequiredColumn(splunk)
    /\ splunk.dataRows # <<>>
    /\ sheets["Top 5 Paging Alerts"].exists
    /\ sheets["Top 5 Paging Alerts"].rows # <<>>
    /\ alertsData["SplunkOnCall"] # <<>>

====
